---- MODULE Spec2Model ----
(***************************************************************************)
(* Model of the iterative persona generation controller                    *)
(* (backend/app/services/iterative_generation_service.py), of the          *)
(* analytics diversity scorer and attribute validator                      *)
(* (backend/app/services/analytics_service.py), of the persona normalizer  *)
(* (app/utils/persona_normalizer.py) and of persona expansion              *)
(* (backend/app/services/persona_service.py).                              *)
(*                                                                         *)
(* Scores are Python floats in the source.  They are modelled as exact     *)
(* fractions [num, den] (den > 0) and compared by cross-multiplication, so *)
(* floating-point rounding is not modelled.  A cosine similarity s is the  *)
(* integer s * Scale.                                                      *)
(***************************************************************************)
EXTENDS Integers, Sequences, FiniteSets, TLC

\* ---------------------------------------------------------------- bounds
MaxPersonas == 2       \* largest candidate list the generative gateway returns
MaxIterBound == 3      \* largest max_iterations a caller passes
MaxChunks == 1         \* largest number of chunks a retrieval query returns
MaxAnalyticsCalls == 2 \* calls of calculate_diversity per run
MaxKeys == 2           \* most keys a raw persona mapping holds
MaxExpansions == 1     \* calls of expand_persona on one persona
MaxHintPersonas == 4   \* largest persona set the hint generator is given

\* ------------------------------------------------------------- constants
Scale == 100           \* 1.0 in fixed point
\* Python's None, also "no row" and "nothing returned"
None == [none |-> TRUE]

Frac(n, d) == [num |-> n, den |-> d]
FracGE(a, b) == a.num * b.den >= b.num * a.den
FracLT(a, b) == a.num * b.den < b.num * a.den
FracEQ(a, b) == a.num * b.den = b.num * a.den

DEFAULT_RQE_THRESHOLD == Frac(75, 100)
DEFAULT_MAX_ITERATIONS == 3
FALLBACK_RQE == Frac(7, 10)
SMALL_SET_RQE == Frac(1, 1)
SIMILAR_CUTOFF == 70
TOP_PAIRS == 3

\* values a cosine similarity can take (times Scale): opposite vectors,
\* the value that puts a 2-persona set exactly on the default threshold,
\* and identical vectors (above the near-duplicate cutoff)
SimValues == {-100, 25, 100}

\* thresholds a caller passes; rqe_threshold is an unvalidated float, 0.0
\* is included (a negative value takes the same paths as 0.0 for scores
\* that are not negative)
RqeThresholds == {DEFAULT_RQE_THRESHOLD, Frac(90, 100), Frac(0, 100)}

\* max_iterations is an unvalidated int; 0 is included (a negative value
\* takes the same path as 0: the loop test fails at once)
MaxIterationsChoices == 0..MaxIterBound

VARIABLES
    has_numpy,          \* `import numpy` succeeds
    has_scikit,         \* `from sklearn... import cosine_similarity` succeeds
    documents,          \* Document rows: [interviews, contexts] (counts)
    generation_config,  \* the arguments of the run
    pc,                 \* position of the run
    interview_texts,    \* number of interview text chunks
    context_texts,      \* number of context text chunks
    persona_set,        \* the PersonaSet row, None before it is created;
                        \* rqe_scores is <<>> while the column is NULL
    iteration_history,
    current_iteration,
    current_rqe,
    threshold_met,
    diversity_hints,
    llm_calls,          \* calls of llm_service.generate_persona_set
    embed_calls,        \* calls of llm_service.create_embeddings
    result,             \* the metrics returned by the run, None if none
    cancelled_in,       \* iteration in progress when the task was cancelled,
                        \* 0 if it was not
    diversity_result,   \* outcome of AnalyticsService.calculate_diversity
    persona_data_list,  \* number of candidates _generate_personas returned
    rqe_metrics,        \* what _calculate_rqe returned last, None before
    analytics_calls,
    \* validate_persona_attributes
    vector_db_type,        \* settings.VECTOR_DB_TYPE: "pinecone" or "chroma"
    cs_threshold,          \* the cs_threshold argument
    persona_attrs,         \* persona.persona_data: attribute name -> kind of value
    val_pc,                \* "idle", "loop" (in the attribute loop), "done"
    val_index,             \* position in validatable_attributes
    val_retrieved,         \* attribute name -> relevances of the chunks the
                           \* index returned for it (most relevant first)
    attribute_validation,
    flagged_attributes,
    validated_attributes,
    validation_result,     \* the returned dictionary, None before the return
    \* normalize_persona_to_nested
    raw_persona,           \* the mapping handed to the normalizer
    normalized,            \* normalize(raw_persona), None before the call
    renormalized,          \* normalize(normalized), None before the call
    norm_pc,               \* "idle", "raw", "once", "twice"
    \* expand_persona
    persona_data,          \* persona.persona_data, None if there is no row
    original_data,         \* persona.persona_data when the last call began
    expanded_data,         \* what llm_service.expand_persona returned
    exp_pc,                \* "idle", "stored", "error"
    expansions,            \* completed calls of expand_persona
    persona_set_status     \* status of the set the persona belongs to

\* the state of validate_persona_attributes
valVars == <<vector_db_type, cs_threshold, persona_attrs, val_pc, val_index,
             val_retrieved, attribute_validation, flagged_attributes,
             validated_attributes, validation_result>>

\* the state of the generation run and of calculate_diversity
runVars == <<has_numpy, has_scikit, documents, generation_config, pc,
             interview_texts, context_texts, persona_set, iteration_history,
             current_iteration, current_rqe, threshold_met, diversity_hints,
             llm_calls, embed_calls, result, cancelled_in, diversity_result,
             analytics_calls, persona_data_list, rqe_metrics>>

\* the state of normalize_persona_to_nested
normVars == <<raw_persona, normalized, renormalized, norm_pc>>

\* the state of expand_persona
expVars == <<persona_data, original_data, expanded_data, exp_pc, expansions,
             persona_set_status>>

\* what the generation run and calculate_diversity never touch
extVars == <<valVars, normVars, expVars>>

\* what validate_persona_attributes never touches
valFrame == <<runVars, normVars, expVars>>

\* what normalize_persona_to_nested never touches
normFrame == <<runVars, valVars, expVars>>

\* what expand_persona never touches
expFrame == <<runVars, valVars, normVars>>

vars == <<runVars, extVars>>

\* ------------------------------------------------------- pure functions

\* unordered pairs i < j of 1..n
PairSet(n) == {p \in (1..n) \X (1..n) : p[1] < p[2]}

\* the matrix sklearn's cosine_similarity returns: symmetric, diagonal 1.0
SimilarityMatrix(n, up) ==
    [p \in (1..n) \X (1..n) |->
        IF p[1] = p[2] THEN Scale
        ELSE IF p[1] < p[2] THEN up[p] ELSE up[<<p[2], p[1]>>]]

RECURSIVE SumOver(_, _)
SumOver(f, S) ==
    IF S = {} THEN 0
    ELSE LET x == CHOOSE y \in S : TRUE IN f[x] + SumOver(f, S \ {x})

\* similarity_matrix[~np.eye(n)]: the off-diagonal entries
OffDiagonal(n) == {p \in (1..n) \X (1..n) : p[1] # p[2]}

\* rqe_score = 1 - float(np.mean(pairwise_similarities))
RqeScore(sum, cnt) == Frac(cnt * Scale - sum, cnt * Scale)

\* _calculate_rqe, the part before the embedding call: the ImportError
\* fallback and the small-set early return.  None when embeddings are needed.
CalculateRqeEarly(n) ==
    IF ~has_scikit THEN [rqe_score |-> FALLBACK_RQE, method |-> "fallback"]
    ELSE IF n < 2 THEN [rqe_score |-> SMALL_SET_RQE, num_personas |-> n]
    ELSE None

\* _calculate_rqe, the part after the embedding call
CalculateRqeFromMatrix(n, m) ==
    [rqe_score |-> RqeScore(SumOver(m, OffDiagonal(n)), Cardinality(OffDiagonal(n))),
     num_personas |-> n,
     similarity_matrix |-> m]

\* the pairs (i, j), i < j, in the order the nested loops visit them
RECURSIVE PairsFrom(_, _, _)
PairsFrom(i, j, n) ==
    IF i > n THEN <<>>
    ELSE IF j > n THEN PairsFrom(i + 1, i + 2, n)
    ELSE <<(<<i, j>>)>> \o PairsFrom(i, j + 1, n)

\* variant: a pair on the cutoff counts as too similar
TooSimilarInclusive(sim) == sim >= SIMILAR_CUTOFF

\* the `similarity_matrix[i][j] > 0.7` test
TooSimilar(sim) == sim > SIMILAR_CUTOFF

RECURSIVE CollectSimilar(_, _)
CollectSimilar(ps, m) ==
    IF ps = <<>> THEN <<>>
    ELSE LET p == Head(ps)
             rest == CollectSimilar(Tail(ps), m)
         IN IF TooSimilar(m[p])
            THEN <<[persona1 |-> p[1], persona2 |-> p[2], similarity |-> m[p]]>> \o rest
            ELSE rest

\* list.sort(key=similarity, reverse=True): stable, descending
RECURSIVE InsertDesc(_, _)
InsertDesc(x, s) ==
    IF s = <<>> THEN <<x>>
    ELSE IF Head(s).similarity >= x.similarity THEN <<Head(s)>> \o InsertDesc(x, Tail(s))
    ELSE <<x>> \o s

RECURSIVE SortDesc(_)
SortDesc(s) ==
    IF s = <<>> THEN <<>>
    ELSE InsertDesc(s[Len(s)], SortDesc(SubSeq(s, 1, Len(s) - 1)))

FirstK(s, k) == SubSeq(s, 1, IF Len(s) < k THEN Len(s) ELSE k)

\* _generate_diversity_hints: the text is modelled by its parts
GenerateDiversityHints(n, metrics) ==
    IF ~has_numpy THEN [kind |-> "generic_no_numpy", header |-> FALSE,
                        pairs |-> <<>>, checklist |-> FALSE]
    ELSE IF "similarity_matrix" \notin DOMAIN metrics
    THEN [kind |-> "generic_no_matrix", header |-> FALSE,
          pairs |-> <<>>, checklist |-> FALSE]
    ELSE [kind |-> "pairs", header |-> TRUE,
          pairs |-> FirstK(SortDesc(CollectSimilar(PairsFrom(1, 2, n),
                                                   metrics.similarity_matrix)),
                           TOP_PAIRS),
          checklist |-> TRUE]

\* _generate_personas: what is kept of the gateway's JSON.  The "personas"
\* entry is a list of items, a single dict, a string (non-JSON formats),
\* or absent/empty; only dict items are kept.
LLMResponses ==
    [kind : {"list"}, dicts : 0..MaxPersonas, others : 0..1]
    \cup [kind : {"dict", "string", "absent"}, dicts : {0}, others : {0}]

ExtractPersonas(resp) ==
    IF resp.kind = "list" THEN resp.dicts
    ELSE IF resp.kind = "dict" THEN 1
    ELSE 0

\* variant: the rows of the earlier iterations are never deleted
ClearExistingNever(iter, personas) == personas

\* lines 151-155: the rows of the set that remain when the new candidates
\* are added; from the second iteration on the existing rows are deleted
ClearExisting(iter, personas) == IF iter > 1 THEN <<>> ELSE personas

\* variant: the record of the pass replaces the last record
OverwriteLastRecord(history, record) ==
    IF history = <<>> THEN <<record>>
    ELSE SubSeq(history, 1, Len(history) - 1) \o <<record>>

\* `iteration_history.append(iteration_record)` (line 184)
AppendRecord(history, record) == Append(history, record)

\* the Persona rows created for one iteration's candidates
NewPersonas(iter, n) == [i \in 1..n |-> [iteration |-> iter, index |-> i]]

\* bug variant: tests the lists against None, which an empty list never is
NoDocumentsIsNone(it, ct) == FALSE

\* `if not interview_texts and not context_texts`
NoDocuments(it, ct) == it = 0 /\ ct = 0

\* _get_documents for one document type: the retrieved chunks, or the
\* documents' contents when retrieval returns nothing
GetTexts(docs, retrieved) ==
    IF docs = 0 THEN 0
    ELSE IF retrieved > 0 THEN retrieved ELSE docs

\* bug variant: off by one, one pass too many
LoopGuardInclusive(cur, max) == cur <= max

\* `while current_iteration < max_iterations`
LoopGuard(cur, max) == cur < max

\* bug variant: strict comparison in the record
RecordThresholdMetStrict(rqe, thr) == ~FracGE(thr, rqe)

\* the "threshold_met" entry of the iteration record (line 179)
RecordThresholdMet(rqe, thr) == FracGE(rqe, thr)

\* bug variant: strict comparison in the stop test
ThresholdReachedStrict(rqe, thr) == ~FracGE(thr, rqe)

\* `if current_rqe >= rqe_threshold: ... break` (line 187)
ThresholdReached(rqe, thr) == FracGE(rqe, thr)

\* bug variant: the auto_iterate test is missing
StopAfterFirstMissing(auto) == FALSE

\* bug variant: the auto_iterate test is inverted
StopAfterFirstInverted(auto) == auto

\* `if not auto_iterate: break` (line 193)
StopAfterFirst(auto) == ~auto

\* variant: no hint is ever computed for the next iteration
HintsWantedNever(cur, max) == FALSE

\* `if current_iteration < max_iterations` before the hints (line 198)
HintsWanted(cur, max) == cur < max

\* bug variant (of the model of the code): a handler returns the history
GatewayFailureResultPartial(history) ==
    [status |-> "FAILED", iteration_history |-> history]

\* what the caller gets when a gateway call raises: the exception propagates
\* (no try/except around the loop), nothing is returned
GatewayFailureResult(history) == None

\* bug variant (of the model of the code): a handler returns the history
CancelledResultPartial(history) ==
    [status |-> "CANCELLED", iteration_history |-> history]

\* what the caller gets when the task is cancelled at an await:
\* CancelledError propagates, nothing is returned
CancelledResult(history) == None

\* ------------------------------------------- attribute validation: data

MaxAttrs == 2          \* attributes present in a validated persona
MaxResults == 2        \* chunks the index returns for one query (<= n_results)

SimUnit == 10000       \* 1.0 of a similarity, distance or relevance
RoundUnit == 1000      \* round(x, 3) keeps thousandths

DEFAULT_CS_THRESHOLD == Frac(80, 100)

\* validatable_attributes, in the order the loop visits them
VALIDATABLE_ATTRIBUTES ==
    <<"background", "goals", "frustrations", "motivations", "behaviors",
      "quote", "quotes">>

AttrNames == {VALIDATABLE_ATTRIBUTES[i] : i \in DOMAIN VALIDATABLE_ATTRIBUTES}

\* kinds of value of an attribute: "absent" (missing, None, "" or []),
\* "blank" (whitespace only, or a list of empty strings), "text" (a string
\* or a list of strings with some text: both are flattened to one string)
AttrKinds == {"absent", "blank", "text"}

\* cosine similarity of a stored chunk to the query (times SimUnit): an
\* unrelated chunk, a chunk whose mean rounds up onto the default
\* threshold, an exact match
Relevances == {0, 7996, 10000}

\* thresholds a caller passes: 0 is accepted like any other float
CsThresholds == {Frac(0, 100), DEFAULT_CS_THRESHOLD}

\* result lists an index returns: most relevant first, at most MaxResults
RECURSIVE SortedLists(_)
SortedLists(k) ==
    IF k = 0 THEN {<<>>}
    ELSE LET shorter == SortedLists(k - 1)
         IN shorter \cup
            {<<p[1]>> \o p[2] :
                p \in {q \in Relevances \X shorter :
                          /\ Len(q[2]) = k - 1
                          /\ (Len(q[2]) = 0 \/ q[1] >= q[2][1])}}

\* `if not attr_value: continue`
IsFalsy(kind) == kind = "absent"

\* `if not attr_text.strip(): continue`
StripsToEmpty(kind) == kind = "blank"

\* the "distances" entry of query_documents: Chroma returns a distance
\* (0 for an exact match, growing as relevance falls; the cosine distance
\* here), Pinecone's wrapper stores match.score, the cosine similarity
BackendDistances(db, rels) ==
    [i \in DOMAIN rels |->
        IF db = "pinecone" THEN rels[i] ELSE SimUnit - rels[i]]

\* `max(0, 1 - d)`
DistanceToSimilarity(d) == IF SimUnit - d > 0 THEN SimUnit - d ELSE 0

RECURSIVE SeqSum(_)
SeqSum(q) == IF q = <<>> THEN 0 ELSE Head(q) + SeqSum(Tail(q))

RECURSIVE SeqMax(_)
SeqMax(q) ==
    IF Len(q) = 1 THEN q[1]
    ELSE LET m == SeqMax(Tail(q)) IN IF q[1] >= m THEN q[1] ELSE m

\* bug variant: an optimistic default when nothing was retrieved
NoResultSimilarityOne == Frac(1, 1)

\* `avg_similarity = 0.0` when no similarity was computed
NoResultSimilarity == Frac(0, 1)

\* float(np.mean(similarities)), or sum(similarities) / len(similarities)
AverageSimilarity(sims) ==
    IF sims = <<>> THEN NoResultSimilarity
    ELSE Frac(SeqSum(sims), Len(sims) * SimUnit)

MaxSimilarity(sims) ==
    IF sims = <<>> THEN Frac(0, 1) ELSE Frac(SeqMax(sims), SimUnit)

\* round(x, 3) for x >= 0: to the nearest thousandth, ties to even
Round3(x) ==
    LET scaled == x.num * RoundUnit
        q == scaled \div x.den
        r == scaled % x.den
    IN Frac(IF 2 * r > x.den \/ (2 * r = x.den /\ q % 2 = 1) THEN q + 1 ELSE q,
            RoundUnit)

\* `is_validated = avg_similarity >= cs_threshold`
IsValidated(avg, thr) == FracGE(avg, thr)

Min(a, b) == IF a < b THEN a ELSE b

\* the entry of attribute_validation for one queried attribute
AttributeRecord(db, rels, thr) ==
    LET distances == BackendDistances(db, rels)
        sims == [i \in DOMAIN distances |-> DistanceToSimilarity(distances[i])]
        avg == AverageSimilarity(sims)
    IN [similarity |-> Round3(avg),
        max_similarity |-> Round3(MaxSimilarity(sims)),
        validated |-> IsValidated(avg, thr),
        threshold |-> thr,
        source_chunks |-> Min(Min(Len(rels), 3), 2)]

\* bug variant: the status looks at the validated list
ValidationStatusByValidated(flagged, validated) ==
    IF Len(validated) > 0 THEN "validated" ELSE "partial"

\* `"validated" if len(flagged_attributes) == 0 else "partial"`
ValidationStatus(flagged, validated) ==
    IF Len(flagged) = 0 THEN "validated" ELSE "partial"

\* bug variant: the rate is taken over all validatable attributes
ValidationRateOverAll(nvalidated, nrecorded) ==
    Frac(nvalidated, Len(VALIDATABLE_ATTRIBUTES))

\* `len(validated_attributes) / len(attribute_validation) if attribute_validation else 0`
ValidationRate(nvalidated, nrecorded) ==
    IF nrecorded > 0 THEN Frac(nvalidated, nrecorded) ELSE Frac(0, 1)

\* no validation is running
ValIdle ==
    /\ vector_db_type = "pinecone"
    /\ cs_threshold = DEFAULT_CS_THRESHOLD
    /\ persona_attrs = [a \in AttrNames |-> "absent"]
    /\ val_pc = "idle"
    /\ val_index = 1
    /\ val_retrieved = <<>>
    /\ attribute_validation = <<>>
    /\ flagged_attributes = <<>>
    /\ validated_attributes = <<>>
    /\ validation_result = None

\* ---------------------------------------------- persona data: JSON values

\* A JSON value carries its Python type.  A str is the sequence of its
\* characters, a list the sequence of its items, a dict the function from
\* its keys to its values.  persona_data itself is such a function.
PyNone == [t |-> "none"]
PyStr(s) == [t |-> "str", chars |-> s]
PyInt(n) == [t |-> "int", num |-> n]
PyList(q) == [t |-> "list", items |-> q]
PyDict(d) == [t |-> "dict", entries |-> d]

IsStr(x) == x.t = "str"
IsList(x) == x.t = "list"
IsDict(x) == x.t = "dict"

\* bool(x)
Truthy(x) ==
    CASE x.t = "none" -> FALSE
      [] x.t = "int" -> x.num # 0
      [] x.t = "str" -> x.chars # <<>>
      [] x.t = "list" -> x.items # <<>>
      [] x.t = "dict" -> DOMAIN x.entries # {}

\* `a or b`
PyOr(a, b) == IF Truthy(a) THEN a ELSE b

\* d.get(k)
DictGet(d, k) == IF k \in DOMAIN d THEN d[k] ELSE PyNone

\* str.strip()
Whitespace == {" ", "\n", "\t"}

RECURSIVE LStrip(_)
LStrip(s) ==
    IF s # <<>> /\ Head(s) \in Whitespace THEN LStrip(Tail(s)) ELSE s

RECURSIVE RStrip(_)
RStrip(s) ==
    IF s # <<>> /\ s[Len(s)] \in Whitespace
    THEN RStrip(SubSeq(s, 1, Len(s) - 1)) ELSE s

Strip(s) == RStrip(LStrip(s))

\* str.split(sep) for a one-character separator: empty pieces are kept
RECURSIVE Split(_, _)
Split(s, sep) ==
    IF \A i \in DOMAIN s : s[i] # sep THEN <<s>>
    ELSE LET i == CHOOSE j \in DOMAIN s :
                    s[j] = sep /\ \A k \in 1..(j - 1) : s[k] # sep
         IN <<SubSeq(s, 1, i - 1)>> \o Split(SubSeq(s, i + 1, Len(s)), sep)

\* [g.strip() for g in pieces if g.strip()]
RECURSIVE StrippedNonEmpty(_)
StrippedNonEmpty(pieces) ==
    IF pieces = <<>> THEN <<>>
    ELSE LET g == Strip(Head(pieces))
         IN (IF g # <<>> THEN <<g>> ELSE <<>>)
                \o StrippedNonEmpty(Tail(pieces))

\* the list of str values of a list of character sequences
AsStrs(q) == [i \in DOMAIN q |-> PyStr(q[i])]

\* ------------------------------------- normalize_persona_to_nested: parts

MIN_FRAGMENT_CHARS == 10
UNKNOWN_PERSONA ==
    PyStr(<<"U", "n", "k", "n", "o", "w", "n", " ", "P", "e", "r", "s", "o", "n", "a">>)

\* [g.strip() for g in text.split("\n") if g.strip()]
SplitLines(text) == StrippedNonEmpty(Split(text, "\n"))

\* `len(g.strip()) > 10`
LongEnough(g) == Len(g) > MIN_FRAGMENT_CHARS

\* [g.strip() for g in text.split(".") if g.strip() and len(g.strip()) > 10]
SplitSentences(text) == SelectSeq(StrippedNonEmpty(Split(text, ".")), LongEnough)

\* lines 143-146: a goals string
GoalsFromString(text) ==
    IF Len(SplitLines(text)) = 1 THEN SplitSentences(text)
    ELSE SplitLines(text)

\* a list as it is, a str split into lines, anything else: nothing
ListOrLines(x) ==
    IF IsList(x) THEN x.items
    ELSE IF IsStr(x) THEN AsStrs(SplitLines(x.chars))
    ELSE <<>>

HasNestedDemographics(d) ==
    "demographics" \in DOMAIN d /\ IsDict(d["demographics"])

NestedGet(d, k) == DictGet(d["demographics"].entries, k)

\* the `if k in persona_data ... elif "demographics" in persona_data ...`
\* blocks of age, gender, occupation, nationality, income_bracket and
\* relationship_status
FlatOrNested(d, k) ==
    IF k \in DOMAIN d THEN (k :> d[k])
    ELSE IF HasNestedDemographics(d) THEN (k :> NestedGet(d, k))
    ELSE <<>>

\* lines 82-89
LocationEntry(d) ==
    IF "location" \in DOMAIN d THEN ("location" :> d["location"])
    ELSE IF HasNestedDemographics(d)
    THEN ("location" :> NestedGet(d, "location"))
    ELSE IF "nationality" \in DOMAIN d
    THEN ("location" :> d["nationality"])
    ELSE <<>>

\* lines 97-103
EducationEntry(d) ==
    IF "education" \in DOMAIN d THEN ("education" :> d["education"])
    ELSE IF "education_level" \in DOMAIN d
    THEN ("education" :> d["education_level"])
    ELSE IF HasNestedDemographics(d)
    THEN ("education" :> PyOr(NestedGet(d, "education"),
                              NestedGet(d, "education_level")))
    ELSE <<>>

\* lines 225-229
SocialMediaEntry(d) ==
    IF "social_media_usage" \in DOMAIN d
    THEN ("social_media_usage" :> d["social_media_usage"])
    ELSE <<>>

\* lines 67-123 and 225-229: the demographics object
Demographics(d) ==
    FlatOrNested(d, "age") @@ FlatOrNested(d, "gender") @@ LocationEntry(d)
        @@ FlatOrNested(d, "occupation") @@ EducationEntry(d)
        @@ FlatOrNested(d, "nationality")
        @@ FlatOrNested(d, "income_bracket")
        @@ FlatOrNested(d, "relationship_status")
        @@ SocialMediaEntry(d)

\* lines 125-134
Background(d) ==
    PyOr(DictGet(d, "background"),
    PyOr(DictGet(d, "detailed_description"),
    PyOr(DictGet(d, "personal_background"),
    PyOr(DictGet(d, "background_and_personal_history"),
    PyOr(DictGet(d, "other_information"),
    PyOr(DictGet(d, "basic_description"), PyStr(<<>>)))))))

\* lines 136-152: the list `goals`
Goals(d) ==
    IF "goals" \in DOMAIN d
    THEN IF IsList(d["goals"]) THEN d["goals"].items
         ELSE IF IsStr(d["goals"]) THEN AsStrs(GoalsFromString(d["goals"].chars))
         ELSE <<>>
    ELSE IF "goals_and_motivations" \in DOMAIN d
            /\ IsDict(d["goals_and_motivations"])
    THEN ListOrLines(DictGet(d["goals_and_motivations"].entries, "goals"))
    ELSE <<>>

\* variant: the stored goals value is passed through as it is
GoalsEntryAsStored(d) ==
    "goals" :> (IF "goals" \in DOMAIN d THEN d["goals"] ELSE PyList(<<>>))

\* line 154
GoalsEntry(d) == "goals" :> PyList(Goals(d))

\* lines 156-172: the list `frustrations`
Frustrations(d) ==
    IF "frustrations" \in DOMAIN d THEN ListOrLines(d["frustrations"])
    ELSE IF "pain_points" \in DOMAIN d THEN ListOrLines(d["pain_points"])
    ELSE IF "pain_points_and_frustrations" \in DOMAIN d
    THEN ListOrLines(d["pain_points_and_frustrations"])
    ELSE <<>>

\* lines 176-188: the list `motivations`
Motivations(d) ==
    IF "motivations" \in DOMAIN d THEN ListOrLines(d["motivations"])
    ELSE IF "goals_and_motivations" \in DOMAIN d
            /\ IsDict(d["goals_and_motivations"])
    THEN ListOrLines(DictGet(d["goals_and_motivations"].entries, "motivations"))
    ELSE <<>>

\* lines 190-191
MotivationsEntry(d) ==
    IF Motivations(d) # <<>> THEN ("motivations" :> PyList(Motivations(d)))
    ELSE <<>>

\* lines 193-197
BehaviorsEntry(d) ==
    IF "behaviors" \in DOMAIN d THEN ("behaviors" :> d["behaviors"])
    ELSE IF "behaviors_and_preferences" \in DOMAIN d
    THEN ("behaviors" :> d["behaviors_and_preferences"])
    ELSE <<>>

\* lines 199-213
TechnologyProfileEntry(d) ==
    IF "technology_profile" \in DOMAIN d /\ IsDict(d["technology_profile"])
    THEN ("technology_profile" :> d["technology_profile"])
    ELSE IF "technology_usage" \in DOMAIN d \/ "digital_literacy" \in DOMAIN d
    THEN LET devices ==
                 IF "technology_usage" \in DOMAIN d
                 THEN ("primary_devices" :>
                          IF IsList(d["technology_usage"])
                          THEN d["technology_usage"]
                          ELSE PyList(<<d["technology_usage"]>>))
                 ELSE <<>>
             comfort ==
                 IF "digital_literacy" \in DOMAIN d
                 THEN ("comfort_level" :> d["digital_literacy"])
                 ELSE <<>>
         IN ("technology_profile" :> PyDict(devices @@ comfort))
    ELSE <<>>

\* lines 215-219
QuotesEntry(d) ==
    IF "quotes" \in DOMAIN d /\ IsList(d["quotes"])
    THEN ("quotes" :> d["quotes"])
    ELSE IF "quote" \in DOMAIN d THEN ("quote" :> d["quote"])
    ELSE <<>>

\* lines 221-223
OtherInformationEntry(d) ==
    IF "other_information" \in DOMAIN d
    THEN ("other_information" :> d["other_information"])
    ELSE <<>>

normalize_persona_to_nested(d) ==
    ("persona_id" :> DictGet(d, "persona_id"))
        @@ ("name" :> IF "name" \in DOMAIN d THEN d["name"]
                      ELSE UNKNOWN_PERSONA)
        @@ ("tagline" :> PyOr(DictGet(d, "tagline"), DictGet(d, "role")))
        @@ ("demographics" :> PyDict(Demographics(d)))
        @@ ("background" :> Background(d))
        @@ GoalsEntry(d)
        @@ ("frustrations" :> PyList(Frustrations(d)))
        @@ MotivationsEntry(d)
        @@ BehaviorsEntry(d)
        @@ TechnologyProfileEntry(d)
        @@ QuotesEntry(d)
        @@ OtherInformationEntry(d)

\* ------------------------------------------- expand_persona: the merge

DEMOGRAPHIC_FIELDS ==
    {"name", "age", "gender", "nationality", "education_level",
     "income_bracket", "relationship_status", "occupation", "location",
     "persona_id", "tagline", "social_media_usage", "role"}

EXPANDABLE_FIELDS ==
    {"behaviors", "goals", "motivations", "frustrations", "pain_points",
     "quotes", "quote", "other_information", "background",
     "personal_history", "detailed_description", "technology_profile",
     "interaction_preferences", "technology_usage", "digital_literacy",
     "behaviors_and_preferences", "goals_and_motivations",
     "pain_points_and_frustrations", "background_and_personal_history",
     "technology_usage_and_digital_literacy",
     "needs_and_interaction_with_product_service",
     "interaction_with_product_service"}

\* variant: the new list also replaces a list of the same length
MergeListsNotShorter(current, value) ==
    IF Len(value.items) >= Len(current.items) THEN value ELSE current

\* `value if len(value) > len(result[key]) else result[key]`
MergeLists(current, value) ==
    IF Len(value.items) > Len(current.items) THEN value ELSE current

\* `if value is not None and value != "": result[key] = value`
MergeScalar(current, value) ==
    IF value.t # "none" /\ ~(IsStr(value) /\ value.chars = <<>>)
    THEN value ELSE current

RECURSIVE strict_deep_merge(_, _)
strict_deep_merge(original, expanded) ==
    [key \in DOMAIN original |->
        IF key \notin DOMAIN expanded THEN original[key]
        ELSE IF key \in DEMOGRAPHIC_FIELDS THEN original[key]
        ELSE IF key = "demographics" /\ IsDict(original[key])
        THEN original[key]
        ELSE IF key = "demographics" /\ IsDict(expanded[key])
        THEN original[key]
        ELSE IF key \in EXPANDABLE_FIELDS
        THEN IF IsDict(original[key]) /\ IsDict(expanded[key])
             THEN PyDict(strict_deep_merge(original[key].entries,
                                           expanded[key].entries))
             ELSE IF IsList(original[key]) /\ IsList(expanded[key])
             THEN MergeLists(original[key], expanded[key])
             ELSE MergeScalar(original[key], expanded[key])
        ELSE original[key]]

\* lines 372-374
OriginalHasFlatDemographics(d) ==
    /\ {"age", "gender", "occupation"} \subseteq DOMAIN d
    /\ "demographics" \notin DOMAIN d

\* dict.pop(k)
WithoutKey(d, k) == [x \in DOMAIN d \ {k} |-> d[x]]

\* lines 299-386: what expand_persona stores for persona_data d and
\* gateway output e
MergedData(d, e) ==
    LET merged_data == strict_deep_merge(normalize_persona_to_nested(d),
                                         normalize_persona_to_nested(e))
    IN IF /\ OriginalHasFlatDemographics(d)
          /\ "demographics" \in DOMAIN merged_data
          /\ IsDict(merged_data["demographics"])
       THEN WithoutKey(merged_data, "demographics")
       ELSE merged_data

\* lines 389-396, for a set that holds this persona only
AllExpanded(d) ==
    Truthy(PyOr(DictGet(d, "detailed_description"),
                DictGet(d, "personal_background")))

\* no normalization is in progress
NormIdle ==
    /\ raw_persona = <<>>
    /\ normalized = None
    /\ renormalized = None
    /\ norm_pc = "idle"

\* no expansion is in progress
ExpIdle ==
    /\ persona_data = None
    /\ original_data = None
    /\ expanded_data = None
    /\ exp_pc = "idle"
    /\ expansions = 0
    /\ persona_set_status = "generated"

\* no generation run is in progress
RunIdle ==
    /\ has_numpy = TRUE
    /\ has_scikit = TRUE
    /\ documents = [interviews |-> 1, contexts |-> 1]
    /\ generation_config = [rqe_threshold |-> DEFAULT_RQE_THRESHOLD,
                            max_iterations |-> DEFAULT_MAX_ITERATIONS,
                            auto_iterate |-> TRUE]
    /\ pc = "idle"
    /\ interview_texts = 0
    /\ context_texts = 0
    /\ persona_set = None
    /\ iteration_history = <<>>
    /\ current_iteration = 0
    /\ current_rqe = Frac(0, 1)
    /\ threshold_met = FALSE
    /\ diversity_hints = None
    /\ llm_calls = 0
    /\ embed_calls = 0
    /\ result = None
    /\ cancelled_in = 0
    /\ diversity_result = None
    /\ analytics_calls = 0
    /\ persona_data_list = 0
    /\ rqe_metrics = None

\* ------------------------------------------------------------------ Init

Configs ==
    [rqe_threshold : RqeThresholds,
     max_iterations : MaxIterationsChoices,
     auto_iterate : BOOLEAN]

Init ==
    /\ has_numpy \in BOOLEAN
    /\ has_scikit \in BOOLEAN
    /\ has_scikit => has_numpy
    /\ documents \in [interviews : 0..1, contexts : 0..1]
    /\ generation_config \in Configs
    /\ pc = "initial"
    /\ interview_texts = 0
    /\ context_texts = 0
    /\ persona_set = None
    /\ iteration_history = <<>>
    /\ current_iteration = 0
    /\ current_rqe = Frac(0, 1)
    /\ threshold_met = FALSE
    /\ diversity_hints = None
    /\ llm_calls = 0
    /\ embed_calls = 0
    /\ result = None
    /\ cancelled_in = 0
    /\ diversity_result = None
    /\ analytics_calls = 0
    /\ persona_data_list = 0
    /\ rqe_metrics = None
    /\ ValIdle
    /\ NormIdle
    /\ ExpIdle

\* --------------------------------------------------------------- actions

\* lines 88-131: fetch the documents, fail fast without any, create the
\* PersonaSet row
Start ==
    /\ pc = "initial"
    /\ \E ri \in 0..MaxChunks, rc \in 0..MaxChunks :
        LET it == GetTexts(documents.interviews, ri)
            ct == GetTexts(documents.contexts, rc)
        IN /\ interview_texts' = it
           /\ context_texts' = ct
           /\ IF NoDocuments(it, ct)
              THEN /\ pc' = "config_error"
                   /\ persona_set' = persona_set
              ELSE /\ pc' = "loop"
                   /\ persona_set' =
                        [status |-> "generating",
                         generation_cycle |-> 1,
                         rqe_threshold |-> generation_config.rqe_threshold,
                         max_iterations |-> generation_config.max_iterations,
                         rqe_scores |-> <<>>,
                         diversity_score |-> None,
                         personas |-> <<>>]
    /\ UNCHANGED extVars
    /\ UNCHANGED <<persona_data_list, rqe_metrics>>
    /\ UNCHANGED <<has_numpy, has_scikit, documents, generation_config,
                   iteration_history, current_iteration, current_rqe,
                   threshold_met, diversity_hints, llm_calls, embed_calls,
                   result, cancelled_in, diversity_result, analytics_calls>>

\* lines 134-149: the loop test passes, the iteration counter advances and
\* the generative gateway is called with the current hints
BeginIteration ==
    /\ pc = "loop"
    /\ LoopGuard(current_iteration, generation_config.max_iterations)
    /\ current_iteration' = current_iteration + 1
    /\ llm_calls' = llm_calls + 1
    /\ pc' = "llm"
    /\ UNCHANGED extVars
    /\ UNCHANGED <<persona_data_list, rqe_metrics>>
    /\ UNCHANGED <<has_numpy, has_scikit, documents, generation_config,
                   interview_texts, context_texts, persona_set,
                   iteration_history, current_rqe, threshold_met,
                   diversity_hints, embed_calls, result, cancelled_in,
                   diversity_result, analytics_calls>>

\* lines 174-202: record the attempt, then stop or prepare the next pass
RecordAndDecide(n, metrics) ==
    LET rqe == metrics.rqe_score
        thr == generation_config.rqe_threshold
    IN /\ current_rqe' = rqe
       /\ rqe_metrics' = metrics
       /\ iteration_history' = AppendRecord(iteration_history,
            [iteration |-> current_iteration,
             rqe_score |-> rqe,
             threshold |-> thr,
             threshold_met |-> RecordThresholdMet(rqe, thr),
             num_personas |-> n,
             diversity_hints_used |-> (diversity_hints # None)])
       /\ IF ThresholdReached(rqe, thr)
          THEN /\ threshold_met' = TRUE
               /\ pc' = "finalize"
               /\ diversity_hints' = diversity_hints
          ELSE IF StopAfterFirst(generation_config.auto_iterate)
          THEN /\ pc' = "finalize"
               /\ UNCHANGED <<threshold_met, diversity_hints>>
          ELSE /\ pc' = "loop"
               /\ threshold_met' = threshold_met
               /\ diversity_hints' =
                    IF HintsWanted(current_iteration, generation_config.max_iterations)
                    THEN GenerateDiversityHints(n, metrics)
                    ELSE diversity_hints

\* lines 139-172: the gateway returns; the previous personas are deleted,
\* the new candidates stored, and scoring starts
LLMReturns ==
    /\ pc = "llm"
    /\ \E resp \in LLMResponses :
        LET stored == ClearExisting(current_iteration, persona_set.personas)
                        \o NewPersonas(current_iteration,
                                       ExtractPersonas(resp))
            n == Len(stored)
            early == CalculateRqeEarly(n)
        IN /\ persona_data_list' = ExtractPersonas(resp)
           /\ persona_set' = [persona_set EXCEPT !.personas = stored]
           /\ IF early = None
              THEN /\ pc' = "embed"
                   /\ embed_calls' = embed_calls + 1
                   /\ UNCHANGED <<iteration_history, current_rqe,
                                  threshold_met, diversity_hints,
                                  rqe_metrics>>
              ELSE /\ RecordAndDecide(n, early)
                   /\ embed_calls' = embed_calls
    /\ UNCHANGED extVars
    /\ UNCHANGED <<has_numpy, has_scikit, documents, generation_config,
                   interview_texts, context_texts, current_iteration,
                   llm_calls, result, cancelled_in, diversity_result,
                   analytics_calls>>

\* lines 390-414 and 174-202: the embeddings arrive, the similarity matrix
\* and the score are computed, the attempt is recorded
EmbeddingReturns ==
    /\ pc = "embed"
    /\ LET n == Len(persona_set.personas)
       IN \E up \in [PairSet(n) -> SimValues] :
            RecordAndDecide(n, CalculateRqeFromMatrix(n, SimilarityMatrix(n, up)))
    /\ UNCHANGED extVars
    /\ UNCHANGED persona_data_list
    /\ UNCHANGED <<has_numpy, has_scikit, documents, generation_config,
                   interview_texts, context_texts, persona_set,
                   current_iteration, llm_calls, embed_calls, result,
                   cancelled_in, diversity_result, analytics_calls>>

\* llm_service.generate_persona_set re-raises (llm_service.py 405-407) and
\* create_embeddings raises: the exception leaves the run
GatewayFails ==
    /\ pc \in {"llm", "embed"}
    /\ pc' = "failed"
    /\ result' = GatewayFailureResult(iteration_history)
    /\ UNCHANGED extVars
    /\ UNCHANGED <<persona_data_list, rqe_metrics>>
    /\ UNCHANGED <<has_numpy, has_scikit, documents, generation_config,
                   interview_texts, context_texts, persona_set,
                   iteration_history, current_iteration, current_rqe,
                   threshold_met, diversity_hints, llm_calls, embed_calls,
                   cancelled_in, diversity_result, analytics_calls>>

\* the task running the coroutine is cancelled while it is suspended in a
\* gateway await: CancelledError is raised there and leaves the run
Cancel ==
    /\ pc \in {"llm", "embed"}
    /\ pc' = "cancelled"
    /\ cancelled_in' = current_iteration
    /\ result' = CancelledResult(iteration_history)
    /\ UNCHANGED extVars
    /\ UNCHANGED <<persona_data_list, rqe_metrics>>
    /\ UNCHANGED <<has_numpy, has_scikit, documents, generation_config,
                   interview_texts, context_texts, persona_set,
                   iteration_history, current_iteration, current_rqe,
                   threshold_met, diversity_hints, llm_calls, embed_calls,
                   diversity_result, analytics_calls>>

\* lines 204-229: after the loop (exhausted or left by break)
Finalize ==
    /\ \/ pc = "finalize"
       \/ /\ pc = "loop"
          /\ ~LoopGuard(current_iteration, generation_config.max_iterations)
    /\ pc' = "done"
    /\ persona_set' = [persona_set EXCEPT
            !.generation_cycle = current_iteration,
            !.status = "generated",
            !.rqe_scores = iteration_history,
            !.diversity_score = [final_rqe |-> current_rqe,
                                 threshold |-> generation_config.rqe_threshold,
                                 threshold_met |-> threshold_met,
                                 iterations_used |-> current_iteration]]
    /\ result' = [rqe_score |-> current_rqe,
                  rqe_threshold |-> generation_config.rqe_threshold,
                  threshold_met |-> threshold_met,
                  iterations_used |-> current_iteration,
                  max_iterations |-> generation_config.max_iterations,
                  iteration_history |-> iteration_history,
                  num_personas |-> Len(persona_set.personas)]
    /\ UNCHANGED extVars
    /\ UNCHANGED <<persona_data_list, rqe_metrics>>
    /\ UNCHANGED <<has_numpy, has_scikit, documents, generation_config,
                   interview_texts, context_texts, iteration_history,
                   current_iteration, current_rqe, threshold_met,
                   diversity_hints, llm_calls, embed_calls, cancelled_in,
                   diversity_result, analytics_calls>>

\* AnalyticsService.calculate_diversity, lines 58-100: the result, or the
\* error raised.  With one persona the off-diagonal selection is empty:
\* np.mean gives nan and np.min raises ValueError.
DiversityOutcome(ps, embed_ok, up) ==
    IF ps = None THEN [outcome |-> "error", error |-> "not_found"]
    ELSE IF Len(ps.personas) = 0 THEN [outcome |-> "error", error |-> "no_personas"]
    ELSE IF ~has_scikit THEN [outcome |-> "error", error |-> "no_scikit"]
    ELSE IF ~embed_ok THEN [outcome |-> "error", error |-> "embedding"]
    ELSE IF Cardinality(OffDiagonal(Len(ps.personas))) = 0
         THEN [outcome |-> "error", error |-> "zero_size_array"]
    ELSE LET n == Len(ps.personas)
             m == SimilarityMatrix(n, up)
         IN [outcome |-> "ok",
             rqe_score |-> RqeScore(SumOver(m, OffDiagonal(n)), Cardinality(OffDiagonal(n))),
             num_personas |-> n]

\* AnalyticsService.calculate_diversity on the persona set of a finished run
\* (or on a missing set, when the run did not create one)
CalculateDiversity ==
    /\ pc \in {"done", "config_error"}
    /\ analytics_calls < MaxAnalyticsCalls
    /\ analytics_calls' = analytics_calls + 1
    /\ LET n == IF persona_set = None THEN 0 ELSE Len(persona_set.personas)
       IN \E embed_ok \in BOOLEAN, up \in [PairSet(n) -> SimValues] :
            LET out == DiversityOutcome(persona_set, embed_ok, up)
            IN /\ diversity_result' = [input_personas |-> n] @@ out
               /\ embed_calls' =
                    IF out.outcome = "ok" \/ out.error \in {"embedding", "zero_size_array"}
                    THEN embed_calls + 1 ELSE embed_calls
               /\ persona_set' =
                    IF out.outcome = "ok"
                    THEN [persona_set EXCEPT
                            !.rqe_scores = Append(@,
                                [cycle |-> persona_set.generation_cycle,
                                 rqe_score |-> out.rqe_score]),
                            !.diversity_score = out]
                    ELSE persona_set
    /\ UNCHANGED extVars
    /\ UNCHANGED <<persona_data_list, rqe_metrics>>
    /\ UNCHANGED <<has_numpy, has_scikit, documents, generation_config, pc,
                   interview_texts, context_texts, iteration_history,
                   current_iteration, current_rqe, threshold_met,
                   diversity_hints, llm_calls, result, cancelled_in>>

Next ==
    \/ Start
    \/ BeginIteration
    \/ LLMReturns
    \/ EmbeddingReturns
    \/ GatewayFails
    \/ Cancel
    \/ Finalize

Spec == Init /\ [][Next]_vars

\* The analytics endpoint, on its own: the persona set it is called on is a
\* stored set of a finished generation (any size the generator can leave,
\* any cycle count), or a set that does not exist.
StoredPersonaSets ==
    {[status |-> "generated",
      generation_cycle |-> c,
      rqe_threshold |-> DEFAULT_RQE_THRESHOLD,
      max_iterations |-> DEFAULT_MAX_ITERATIONS,
      rqe_scores |-> <<>>,
      diversity_score |-> None,
      personas |-> NewPersonas(c, n)] : c \in 1..MaxIterBound, n \in 0..MaxPersonas}

InitAnalytics ==
    /\ has_numpy \in BOOLEAN
    /\ has_scikit \in BOOLEAN
    /\ has_scikit => has_numpy
    /\ documents = [interviews |-> 1, contexts |-> 1]
    /\ generation_config = [rqe_threshold |-> DEFAULT_RQE_THRESHOLD,
                            max_iterations |-> DEFAULT_MAX_ITERATIONS,
                            auto_iterate |-> TRUE]
    /\ \/ pc = "done" /\ persona_set \in StoredPersonaSets
       \/ pc = "config_error" /\ persona_set = None
    /\ interview_texts = 0
    /\ context_texts = 0
    /\ iteration_history = <<>>
    /\ current_iteration = 0
    /\ current_rqe = Frac(0, 1)
    /\ threshold_met = FALSE
    /\ diversity_hints = None
    /\ llm_calls = 0
    /\ embed_calls = 0
    /\ result = None
    /\ cancelled_in = 0
    /\ diversity_result = None
    /\ analytics_calls = 0
    /\ persona_data_list = 0
    /\ rqe_metrics = None
    /\ ValIdle
    /\ NormIdle
    /\ ExpIdle

NextAnalytics == CalculateDiversity

SpecAnalytics == InitAnalytics /\ [][NextAnalytics]_vars

\* ---------------------------------------------------------------- claims

Threshold == generation_config.rqe_threshold
MaxIterations == generation_config.max_iterations
AutoIterate == generation_config.auto_iterate
Zero == Frac(0, 1)
One == Frac(1, 1)

AllBelowThreshold ==
    \A i \in DOMAIN iteration_history :
        FracLT(iteration_history[i].rqe_score, Threshold)

\* C1: with auto_iterate=True the number of recorded attempts never exceeds
\* max_iterations, and neither does the number of generative gateway calls.
ThmIterationBound ==
    AutoIterate =>
        /\ Len(iteration_history) <= MaxIterations
        /\ llm_calls <= MaxIterations

WitIterationBound ==
    /\ pc = "done"
    /\ AutoIterate
    /\ MaxIterations >= 2
    /\ Len(iteration_history) = MaxIterations
    /\ llm_calls = MaxIterations

\* C2: every recorded attempt has threshold_met = (rqe_score >= threshold),
\* threshold being the run's rqe_threshold, the boundary
\* rqe_score = rqe_threshold included.
ThmThresholdDeterminism ==
    \A i \in DOMAIN iteration_history :
        /\ iteration_history[i].threshold = Threshold
        /\ iteration_history[i].threshold_met =
             (iteration_history[i].rqe_score.num * Threshold.den
                >= Threshold.num * iteration_history[i].rqe_score.den)

WitThresholdDeterminism ==
    /\ Len(iteration_history) >= 2
    /\ FracLT(iteration_history[1].rqe_score, Threshold)
    /\ FracEQ(iteration_history[2].rqe_score, Threshold)
    /\ iteration_history[2].threshold_met

\* C3: if auto_iterate is true, max_iterations >= 1 and every attempt scores
\* strictly below the threshold, the finished run has exactly max_iterations
\* records, iterations_used = max_iterations and threshold_met = False.
ThmExhaustsIterations ==
    (pc = "done" /\ AutoIterate /\ MaxIterations >= 1 /\ AllBelowThreshold) =>
        /\ Len(iteration_history) = MaxIterations
        /\ result.iteration_history = iteration_history
        /\ result.iterations_used = MaxIterations
        /\ result.threshold_met = FALSE

WitExhaustsIterations ==
    /\ pc = "done"
    /\ AutoIterate
    /\ MaxIterations = DEFAULT_MAX_ITERATIONS
    /\ Threshold = DEFAULT_RQE_THRESHOLD
    /\ AllBelowThreshold
    /\ Len(result.iteration_history) = DEFAULT_MAX_ITERATIONS

\* C4: the run stops at the first attempt that reaches the threshold: every
\* record but the last scores below the threshold, and once the last record
\* reaches it no generation call follows and the run only finishes.
ThmStopsAtFirstSuccess ==
    /\ \A i \in 1..(Len(iteration_history) - 1) :
          FracLT(iteration_history[i].rqe_score, Threshold)
    /\ (/\ iteration_history # <<>>
        /\ FracGE(iteration_history[Len(iteration_history)].rqe_score, Threshold))
       => /\ llm_calls = Len(iteration_history)
          /\ pc \in {"finalize", "done"}
    /\ pc = "done" =>
          \A i \in 1..(Len(result.iteration_history) - 1) :
             ~result.iteration_history[i].threshold_met

WitStopsAtFirstSuccess ==
    /\ pc = "done"
    /\ MaxIterations = 3
    /\ Len(result.iteration_history) = 2
    /\ result.iteration_history[2].threshold_met
    /\ FracEQ(result.iteration_history[2].rqe_score, Threshold)

\* C5 as stated: with auto_iterate=False the run performs exactly one pass
\* whatever max_iterations is.
CexSinglePassAlways ==
    (pc = "done" /\ ~AutoIterate) =>
        /\ Len(result.iteration_history) = 1
        /\ llm_calls = 1
        /\ diversity_hints = None

\* C5 amended: with auto_iterate=False and max_iterations >= 1 the run
\* performs exactly one generate-and-score pass whatever the score: a single
\* attempt that misses the threshold is returned (history of length 1,
\* threshold_met False), no hints are generated, no second generation call
\* is made.  With max_iterations = 0 it performs no pass at all.
ThmSinglePass ==
    (pc = "done" /\ ~AutoIterate) =>
        /\ result.iteration_history = iteration_history
        /\ diversity_hints = None
        /\ IF MaxIterations >= 1
           THEN /\ Len(iteration_history) = 1
                /\ llm_calls = 1
                /\ result.iterations_used = 1
                /\ result.threshold_met =
                     FracGE(iteration_history[1].rqe_score, Threshold)
           ELSE /\ iteration_history = <<>>
                /\ llm_calls = 0
                /\ result.iterations_used = 0

WitSinglePass ==
    /\ pc = "done"
    /\ ~AutoIterate
    /\ MaxIterations = 3
    /\ Len(result.iteration_history) = 1
    /\ FracLT(result.iteration_history[1].rqe_score, Threshold)
    /\ result.threshold_met = FALSE

\* C6: without interview text and without context text the run fails fast
\* with a configuration error: no PersonaSet row, no gateway call, no attempt.
ThmFailFastWithoutDocuments ==
    (pc # "initial" /\ interview_texts = 0 /\ context_texts = 0) =>
        /\ pc = "config_error"
        /\ persona_set = None
        /\ llm_calls = 0
        /\ embed_calls = 0
        /\ iteration_history = <<>>
        /\ result = None

WitFailFastWithoutDocuments ==
    /\ pc = "config_error"
    /\ documents.interviews = 0
    /\ documents.contexts = 0
    /\ interview_texts = 0
    /\ context_texts = 0

CexSmallSetScore ==
    /\ \A i \in DOMAIN iteration_history :
          iteration_history[i].num_personas < 2 =>
             FracEQ(iteration_history[i].rqe_score, One)
    /\ (/\ diversity_result # None
        /\ diversity_result.input_personas < 2
        /\ diversity_result.outcome = "error" =>
               diversity_result.error \notin {"not_found", "embedding", "no_scikit"})
       => /\ diversity_result.outcome = "ok"
          /\ FracEQ(diversity_result.rqe_score, One)

\* C10: every recorded attempt over at least 2 personas has rqe_score in
\* [0, 1] (the similarities are in [-1, 1]).
CexRqeInUnitInterval ==
    \A i \in DOMAIN iteration_history :
        iteration_history[i].num_personas >= 2 =>
            /\ FracGE(iteration_history[i].rqe_score, Zero)
            /\ FracGE(One, iteration_history[i].rqe_score)

\* -------------------------------------- attribute validation: operations

\* personas with at most MaxAttrs attributes present
ValidatedPersonas ==
    {f \in [AttrNames -> AttrKinds] :
        Cardinality({a \in AttrNames : f[a] # "absent"}) <= MaxAttrs}

InitValidation ==
    /\ RunIdle
    /\ NormIdle
    /\ ExpIdle
    /\ vector_db_type \in {"pinecone", "chroma"}
    /\ cs_threshold \in CsThresholds
    /\ persona_attrs \in ValidatedPersonas
    /\ val_pc = "loop"
    /\ val_index = 1
    /\ val_retrieved = <<>>
    /\ attribute_validation = <<>>
    /\ flagged_attributes = <<>>
    /\ validated_attributes = <<>>
    /\ validation_result = None

\* lines 330-343: one pass of the loop for an attribute that is skipped
SkipAttribute ==
    /\ val_pc = "loop"
    /\ val_index <= Len(VALIDATABLE_ATTRIBUTES)
    /\ LET kind == persona_attrs[VALIDATABLE_ATTRIBUTES[val_index]]
       IN IsFalsy(kind) \/ StripsToEmpty(kind)
    /\ val_index' = val_index + 1
    /\ UNCHANGED <<vector_db_type, cs_threshold, persona_attrs, val_pc,
                   val_retrieved, attribute_validation, flagged_attributes,
                   validated_attributes, validation_result>>
    /\ UNCHANGED valFrame

\* lines 330-384: one pass of the loop for an attribute that is queried
ValidateAttribute ==
    /\ val_pc = "loop"
    /\ val_index <= Len(VALIDATABLE_ATTRIBUTES)
    /\ LET attr_name == VALIDATABLE_ATTRIBUTES[val_index]
           kind == persona_attrs[attr_name]
       IN /\ ~(IsFalsy(kind) \/ StripsToEmpty(kind))
          /\ \E rels \in SortedLists(MaxResults) :
               LET rec == AttributeRecord(vector_db_type, rels, cs_threshold)
               IN /\ val_retrieved' = val_retrieved @@ (attr_name :> rels)
                  /\ attribute_validation' =
                        attribute_validation @@ (attr_name :> rec)
                  /\ IF rec.validated
                     THEN /\ validated_attributes' =
                                Append(validated_attributes, attr_name)
                          /\ flagged_attributes' = flagged_attributes
                     ELSE /\ flagged_attributes' =
                                Append(flagged_attributes, attr_name)
                          /\ validated_attributes' = validated_attributes
    /\ val_index' = val_index + 1
    /\ UNCHANGED <<vector_db_type, cs_threshold, persona_attrs, val_pc,
                   validation_result>>
    /\ UNCHANGED valFrame

\* lines 386-412: after the loop, the status and the returned dictionary
FinishValidation ==
    /\ val_pc = "loop"
    /\ val_index > Len(VALIDATABLE_ATTRIBUTES)
    /\ val_pc' = "done"
    /\ validation_result' =
         [attribute_validation |-> attribute_validation,
          validated_attributes |-> validated_attributes,
          flagged_attributes |-> flagged_attributes,
          validation_status |-> ValidationStatus(flagged_attributes,
                                                 validated_attributes),
          cs_threshold |-> cs_threshold,
          validation_rate |-> ValidationRate(Len(validated_attributes),
                                Cardinality(DOMAIN attribute_validation))]
    /\ UNCHANGED <<vector_db_type, cs_threshold, persona_attrs, val_index,
                   val_retrieved, attribute_validation, flagged_attributes,
                   validated_attributes>>
    /\ UNCHANGED valFrame

NextValidation ==
    \/ SkipAttribute
    \/ ValidateAttribute
    \/ FinishValidation

SpecValidation == InitValidation /\ [][NextValidation]_vars

\* ------------------------------------------ attribute validation: claims

InSeq(x, q) == \E i \in DOMAIN q : q[i] = x
SeqSet(q) == {q[i] : i \in DOMAIN q}

\* C11: every recorded attribute result has
\* validated = (recorded similarity >= cs_threshold).
CexValidatedMatchesRecorded ==
    \A a \in DOMAIN attribute_validation :
        attribute_validation[a].validated =
            FracGE(attribute_validation[a].similarity, cs_threshold)

CexExactMatchValidated ==
    /\ \A a \in DOMAIN attribute_validation :
         (/\ val_retrieved[a] # <<>>
          /\ \A i \in DOMAIN val_retrieved[a] : val_retrieved[a][i] = SimUnit
          /\ FracGE(Frac(1, 1), cs_threshold))
         => /\ InSeq(a, validated_attributes)
            /\ ~InSeq(a, flagged_attributes)
    /\ \A a, b \in DOMAIN attribute_validation :
         (/\ Len(val_retrieved[a]) = Len(val_retrieved[b])
          /\ \A i \in DOMAIN val_retrieved[a] :
                val_retrieved[a][i] <= val_retrieved[b][i])
         => FracGE(attribute_validation[b].similarity,
                   attribute_validation[a].similarity)

ScalarKeys ==
    {"persona_id", "name", "tagline", "role", "age", "gender", "location",
     "occupation", "education", "education_level", "nationality",
     "income_bracket", "relationship_status", "social_media_usage",
     "background", "detailed_description", "personal_background",
     "background_and_personal_history", "other_information",
     "basic_description", "behaviors", "behaviors_and_preferences",
     "digital_literacy", "quote"}

\* keys whose value may be a list or a text of lines
ListOrTextKeys ==
    {"frustrations", "pain_points", "pain_points_and_frustrations",
     "motivations"}

RawKeys ==
    ScalarKeys \cup ListOrTextKeys \cup
        {"goals", "goals_and_motivations", "demographics",
         "technology_profile", "technology_usage", "quotes"}

\* a text of n letters
Word(n) == [i \in 1..n |-> "a"]

\* fragment lengths below, at and above the length test of the period split
Fragments ==
    {Word(n) : n \in {3, MIN_FRAGMENT_CHARS, MIN_FRAGMENT_CHARS + 1}}
Endings == {<<>>, <<".">>}

ANA_GOALS ==
    <<"S", "a", "v", "e", " ", "m", "o", "n", "e", "y", ".", " ">>
        \o <<"T", "r", "a", "v", "e", "l", " ", "m", "o", "r", "e", ".", " ">>
        \o <<"L", "e", "a", "r", "n", " ", "S", "p", "a", "n", "i", "s", "h", ".">>
ANA_PERSONA ==
    ("name" :> PyStr(<<"A", "n", "a">>)) @@ ("age" :> PyInt(34))
        @@ ("goals" :> PyStr(ANA_GOALS))

\* goals texts of up to two fragments
GoalTexts ==
    {<<>>, <<" ">>, ANA_GOALS}
        \cup {f \o e : f \in Fragments, e \in Endings}
        \cup {f \o sep \o g \o e : f \in Fragments,
                                   sep \in {<<".", " ">>, <<"\n">>},
                                   g \in Fragments, e \in Endings}

\* the last text is one line of two sentences, each longer than the
\* length test
LineTexts ==
    {<<>>, <<" ">>, Word(3), Word(3) \o <<"\n", " ">> \o Word(4) \o <<" ">>,
     Word(11) \o <<".", " ">> \o Word(12) \o <<".">>}

StrLists == {<<>>, <<PyStr(Word(3))>>, <<PyStr(Word(3)), PyStr(Word(4))>>}

NestedDemographics ==
    {<<>>,
     "age" :> PyInt(34),
     ("age" :> PyInt(34)) @@ ("gender" :> PyStr(<<"f">>))
        @@ ("occupation" :> PyStr(<<"n">>)),
     "education_level" :> PyStr(<<"l">>),
     ("education" :> PyStr(<<>>)) @@ ("education_level" :> PyStr(<<"l">>)),
     ("location" :> PyStr(<<"c">>)) @@ ("nationality" :> PyStr(<<"n">>))}

\* the values a raw persona may hold under key k; a scalar is the empty
\* text or a text that names its key
KeyValues(k) ==
    CASE k \in ScalarKeys -> {PyStr(<<>>), PyStr(<<k>>)}
      [] k \in ListOrTextKeys ->
            {PyStr(t) : t \in LineTexts} \cup {PyList(l) : l \in StrLists}
                \cup {PyInt(1)}
      [] k = "goals" ->
            {PyStr(t) : t \in GoalTexts} \cup {PyList(l) : l \in StrLists}
                \cup {PyInt(1)}
      [] k = "goals_and_motivations" ->
            {PyDict(<<>>), PyStr(<<k>>),
             PyDict("goals" :> PyStr(Word(3) \o <<"\n">> \o Word(4))),
             PyDict(("goals" :> PyList(<<PyStr(Word(3))>>))
                        @@ ("motivations" :> PyStr(Word(4))))}
      [] k = "demographics" ->
            {PyDict(n) : n \in NestedDemographics} \cup {PyStr(<<k>>)}
      [] k = "technology_profile" ->
            {PyDict("comfort_level" :> PyStr(<<"h">>)), PyStr(<<k>>)}
      [] k = "technology_usage" ->
            {PyList(<<PyStr(<<k>>)>>), PyStr(<<k>>)}
      [] k = "quotes" -> {PyList(l) : l \in StrLists} \cup {PyStr(<<k>>)}

\* the sets of at most n keys
RECURSIVE KeySets(_)
KeySets(n) ==
    IF n = 0 THEN {{}}
    ELSE KeySets(n - 1) \cup
            {S \cup {k} : S \in KeySets(n - 1), k \in RawKeys}

\* the mappings with exactly the keys S
RECURSIVE PersonasOver(_)
PersonasOver(S) ==
    IF S = {} THEN {<<>>}
    ELSE LET k == CHOOSE x \in S : TRUE
         IN {(k :> v) @@ p : v \in KeyValues(k), p \in PersonasOver(S \ {k})}

\* the raw mappings with the keys S, and the example persona
RawPersonas(S) ==
    IF S = {} THEN {<<>>, ANA_PERSONA} ELSE PersonasOver(S)

InitNormalizer ==
    /\ RunIdle
    /\ ValIdle
    /\ ExpIdle
    /\ \E S \in KeySets(MaxKeys) : raw_persona \in RawPersonas(S)
    /\ normalized = None
    /\ renormalized = None
    /\ norm_pc = "raw"

\* a raw mapping (gateway output, stored persona_data) is normalized
NormalizeRaw ==
    /\ norm_pc = "raw"
    /\ normalized' = normalize_persona_to_nested(raw_persona)
    /\ norm_pc' = "once"
    /\ UNCHANGED <<raw_persona, renormalized>>
    /\ UNCHANGED normFrame

\* a stored, already normalized persona_data is normalized again
NormalizeStored ==
    /\ norm_pc = "once"
    /\ renormalized' = normalize_persona_to_nested(normalized)
    /\ norm_pc' = "twice"
    /\ UNCHANGED <<raw_persona, normalized>>
    /\ UNCHANGED normFrame

NextNormalizer ==
    \/ NormalizeRaw
    \/ NormalizeStored

SpecNormalizer == InitNormalizer /\ [][NextNormalizer]_vars

\* ------------------------------------------------------ normalizer: claims

\* C15: normalizing a normalized persona gives the same persona:
\* normalize(normalize(x)) = normalize(x) for every raw mapping x.
CexNormalizeIdempotent ==
    norm_pc = "twice" => renormalized = normalized

FLAT_DEMOGRAPHIC_KEYS ==
    {"age", "gender", "location", "occupation", "education", "nationality",
     "income_bracket", "relationship_status"}

CanonicalShape(p) ==
    /\ "demographics" \in DOMAIN p
    /\ IsDict(p["demographics"])
    /\ DOMAIN p \cap FLAT_DEMOGRAPHIC_KEYS = {}
    /\ "goals" \in DOMAIN p
    /\ IsList(p["goals"])
    /\ "frustrations" \in DOMAIN p
    /\ IsList(p["frustrations"])

AtLeastMinChars(g) == Len(g) >= MIN_FRAGMENT_CHARS
FragmentsOfAtLeastMinChars(text) ==
    SelectSeq(StrippedNonEmpty(Split(text, ".")), AtLeastMinChars)

\* C17: a goals string that is a single line is split on periods and every
\* trimmed fragment of at least 10 characters is kept; the persona
\* {name: Ana, age: 34, goals: "Save money. Travel more. Learn Spanish."}
\* gets demographics.age = 34 and the three goals "Save money",
\* "Travel more", "Learn Spanish".
CexGoalsSplitOnPeriods ==
    norm_pc = "once" =>
        /\ ("goals" \in DOMAIN raw_persona
                /\ IsStr(raw_persona["goals"])
                /\ Len(SplitLines(raw_persona["goals"].chars)) = 1)
            => normalized["goals"].items =
                 AsStrs(FragmentsOfAtLeastMinChars(raw_persona["goals"].chars))
        /\ raw_persona = ANA_PERSONA
            => /\ normalized["demographics"].entries["age"] = PyInt(34)
               /\ normalized["goals"] =
                    PyList(<<PyStr(<<"S", "a", "v", "e", " ", "m", "o", "n", "e", "y">>),
                             PyStr(<<"T", "r", "a", "v", "e", "l", " ", "m", "o", "r", "e">>),
                             PyStr(<<"L", "e", "a", "r", "n", " ", "S", "p", "a", "n", "i", "s", "h">>)>>)

\* the rule stated for goals: the lines of the text, and when there is a
\* single line its fragments between periods of at least 10 characters
LinesThenSentences(text) ==
    IF Len(SplitLines(text)) = 1 THEN FragmentsOfAtLeastMinChars(text)
    ELSE SplitLines(text)

NormalizedList(p, k) == IF k \in DOMAIN p THEN p[k].items ELSE <<>>

\* C27: frustrations and motivations given as strings become arrays by the
\* rule of goals: split on newlines and, when that gives a single item,
\* split on periods dropping fragments under 10 characters, so a one-line
\* string of several sentences gives one element per sentence.
CexSentencesSplitInAllLists ==
    norm_pc = "once" =>
        \A k \in {"frustrations", "motivations"} :
            (k \in DOMAIN raw_persona /\ IsStr(raw_persona[k]))
            => NormalizedList(normalized, k)
                 = AsStrs(LinesThenSentences(raw_persona[k].chars))

\* the raw mapping has no location, at the top level or in a nested
\* demographics object
NoLocation(d) ==
    /\ "location" \notin DOMAIN d
    /\ HasNestedDemographics(d)
        => "location" \notin DOMAIN d["demographics"].entries

\* C28: a raw persona without a location (top-level or nested) that has a
\* nationality gets demographics.location = that nationality, with or
\* without a nested demographics object.
CexNationalityFallback ==
    (norm_pc = "once" /\ NoLocation(raw_persona)
        /\ "nationality" \in DOMAIN raw_persona)
    => DictGet(normalized["demographics"].entries, "location")
          = raw_persona["nationality"]

\* --------------------------------------- expand_persona: inputs, operations

Letter(c) == PyStr(<<c>>)

\* the demographic layouts of a stored persona_data: flat with age, gender
\* and occupation; flat with age only; nested; and the normalized form the
\* generation run stores
FlatFull ==
    ("name" :> Letter("A")) @@ ("age" :> PyInt(34))
        @@ ("gender" :> Letter("f")) @@ ("occupation" :> Letter("n"))
NestedLayout ==
    ("name" :> Letter("A"))
        @@ ("demographics" :>
                PyDict(("age" :> PyInt(34)) @@ ("gender" :> Letter("f"))
                           @@ ("occupation" :> Letter("n"))))
StoredLayouts ==
    {FlatFull, ("name" :> Letter("A")) @@ ("age" :> PyInt(34)), NestedLayout,
     normalize_persona_to_nested(FlatFull)}

StoredContents ==
    {<<>>,
     "goals" :> PyList(<<Letter("g")>>),
     ("goals" :> PyList(<<Letter("g"), Letter("h")>>))
        @@ ("behaviors" :> Letter("b")),
     "technology_profile" :>
        PyDict(("comfort_level" :> Letter("h"))
                   @@ ("interaction_preferences" :> PyList(<<Letter("i")>>))),
     "quote" :> PyStr(<<>>)}

StoredPersonas == {c @@ l : l \in StoredLayouts, c \in StoredContents}

\* what the gateway says about demographics: nothing, a flat age, a nested
\* object
EnrichedDemographics ==
    {<<>>,
     "age" :> PyInt(35),
     "demographics" :>
        PyDict(("age" :> PyInt(35)) @@ ("gender" :> Letter("m")))}

EnrichedContents ==
    {<<>>,
     "goals" :> PyList(<<Letter("g"), Letter("h"), Letter("k")>>),
     "goals" :> PyList(<<Letter("x"), Letter("y")>>),
     "goals" :> PyList(<<>>),
     "goals" :> PyStr(Word(MIN_FRAGMENT_CHARS + 1)),
     "behaviors" :> Letter("c"),
     "behaviors" :> PyStr(<<>>),
     "technology_profile" :>
        PyDict(("comfort_level" :> Letter("e"))
                   @@ ("interaction_preferences" :>
                           PyList(<<Letter("i"), Letter("j")>>))
                   @@ ("wearables" :> Letter("w"))),
     "hobby" :> Letter("x")}

Enrichments == {c @@ e : e \in EnrichedDemographics, c \in EnrichedContents}

InitExpansion ==
    /\ RunIdle
    /\ ValIdle
    /\ NormIdle
    /\ \/ persona_data \in StoredPersonas /\ exp_pc = "stored"
       \/ persona_data = None /\ exp_pc = "missing"
    /\ original_data = None
    /\ expanded_data = None
    /\ expansions = 0
    /\ persona_set_status = "generated"

\* lines 228-400 when the gateway answers: the context retrieved at lines
\* 236-274 only feeds the gateway call, whose answer is any enrichment
ExpandPersona ==
    /\ exp_pc = "stored"
    /\ expansions < MaxExpansions
    /\ \E e \in Enrichments :
         /\ expanded_data' = e
         /\ persona_data' = MergedData(persona_data, e)
         /\ persona_set_status' =
                IF AllExpanded(MergedData(persona_data, e)) THEN "expanded"
                ELSE persona_set_status
    /\ original_data' = persona_data
    /\ expansions' = expansions + 1
    /\ UNCHANGED exp_pc
    /\ UNCHANGED expFrame

\* lines 277-280 when the gateway raises: nothing is stored
ExpansionFails ==
    /\ exp_pc = "stored"
    /\ expansions < MaxExpansions
    /\ exp_pc' = "error"
    /\ UNCHANGED <<persona_data, original_data, expanded_data, expansions,
                   persona_set_status>>
    /\ UNCHANGED expFrame

\* lines 228-234: no row with this id
PersonaNotFound ==
    /\ exp_pc = "missing"
    /\ exp_pc' = "error"
    /\ UNCHANGED <<persona_data, original_data, expanded_data, expansions,
                   persona_set_status>>
    /\ UNCHANGED expFrame

NextExpansion ==
    \/ ExpandPersona
    \/ ExpansionFails
    \/ PersonaNotFound

SpecExpansion == InitExpansion /\ [][NextExpansion]_vars

\* -------------------------------------------------- expand_persona: claims

\* a call of expand_persona has stored its result
Expanded == exp_pc = "stored" /\ expansions > 0

\* C18: every top-level key of the stored persona_data was a key of the
\* persona_data before the call.
CexMergeClosedOnKeys ==
    Expanded => DOMAIN persona_data \subseteq DOMAIN original_data

\* the value of demographic field k readable from persona_data d: the flat
\* entry, else the entry of the nested object, else None
ReadDemographic(d, k) ==
    IF k \in DOMAIN d THEN d[k]
    ELSE IF HasNestedDemographics(d) THEN NestedGet(d, k)
    ELSE PyNone

\* C19: each of the eight demographic values the persona had before the
\* call is readable, unchanged, after it.
CexDemographicsUnchanged ==
    Expanded =>
        \A k \in FLAT_DEMOGRAPHIC_KEYS :
            ReadDemographic(original_data, k) # PyNone
                => ReadDemographic(persona_data, k)
                      = ReadDemographic(original_data, k)

\* C20: a persona_data with the flat layout (top-level age, gender,
\* occupation, no demographics key) keeps these top-level entries and gets
\* no demographics key.
CexFlatLayoutPreserved ==
    (Expanded /\ OriginalHasFlatDemographics(original_data)) =>
        /\ \A k \in {"age", "gender", "occupation"} :
              k \in DOMAIN persona_data /\ persona_data[k] = original_data[k]
        /\ "demographics" \notin DOMAIN persona_data

\* the expandable top-level fields that are lists on both sides of the
\* merge
MergedArrayFields ==
    LET o == normalize_persona_to_nested(original_data)
        e == normalize_persona_to_nested(expanded_data)
    IN {k \in (DOMAIN o \cap DOMAIN e) \cap EXPANDABLE_FIELDS :
            IsList(o[k]) /\ IsList(e[k])}

\* C29: an expandable array present on both sides of the merge is replaced
\* by the new array exactly when the new array is not shorter than the
\* original one (len(new) >= len(original)), otherwise the original array
\* is kept; the merged array is never shorter than the original.
CexReplacedWhenNotShorter ==
    Expanded =>
        LET o == normalize_persona_to_nested(original_data)
            e == normalize_persona_to_nested(expanded_data)
        IN \A k \in MergedArrayFields :
            /\ persona_data[k] =
                 IF Len(e[k].items) >= Len(o[k].items) THEN e[k] ELSE o[k]
            /\ Len(persona_data[k].items) >= Len(o[k].items)

\* C29, amended: the array is replaced by the new array exactly when the
\* new array is strictly longer than the original one, otherwise (shorter
\* or of the same length) the original array is kept; the merged array is
\* never shorter than the original.
ThmReplacedWhenLonger ==
    Expanded =>
        LET o == normalize_persona_to_nested(original_data)
            e == normalize_persona_to_nested(expanded_data)
        IN \A k \in MergedArrayFields :
            /\ persona_data[k] =
                 IF Len(e[k].items) > Len(o[k].items) THEN e[k] ELSE o[k]
            /\ Len(persona_data[k].items) >= Len(o[k].items)

WitReplacedWhenLonger ==
    /\ Expanded
    /\ "goals" \in MergedArrayFields
    /\ "goals" \in DOMAIN original_data
    /\ "goals" \in DOMAIN expanded_data
    /\ original_data["goals"] = PyList(<<Letter("g"), Letter("h")>>)
    /\ expanded_data["goals"] = PyList(<<Letter("x"), Letter("y")>>)
    /\ persona_data["goals"] = original_data["goals"]

\* ------------------------------------------- controller: history and hints

\* every record carries its 1-based position, and a record exists for
\* every completed pass and for no other
HistoryNumbered ==
    /\ \A i \in DOMAIN iteration_history :
          iteration_history[i].iteration = i
    /\ pc \in {"llm", "embed"}
          => Len(iteration_history) = current_iteration - 1
    /\ pc \in {"loop", "finalize", "done"}
          => Len(iteration_history) = current_iteration

\* a step leaves the history alone or adds one record at its end
HistoryStep ==
    \/ iteration_history' = iteration_history
    \/ /\ Len(iteration_history') = Len(iteration_history) + 1
       /\ SubSeq(iteration_history', 1, Len(iteration_history))
             = iteration_history

\* C21: the iteration history is append-only: each completed pass appends
\* exactly one record, no step changes or removes an earlier record, and
\* record k has iteration number k.
ThmHistoryAppendOnly == [](HistoryNumbered) /\ [][HistoryStep]_vars

WitHistoryAppendOnly ==
    /\ pc = "done"
    /\ Len(iteration_history) = 3
    /\ iteration_history[3].iteration = 3
    /\ result.iteration_history = iteration_history

\* C22: an attempt is scored and recorded only after the gateway returned
\* a non-empty candidate list: no record has zero personas, and no record
\* with zero personas is marked as meeting the threshold.
CexNoEmptyAttemptRecorded ==
    \A i \in DOMAIN iteration_history :
        /\ iteration_history[i].num_personas > 0
        /\ iteration_history[i].num_personas = 0
              => ~iteration_history[i].threshold_met

\* once the candidates of the iteration in progress are stored, the set
\* holds exactly these
StoredAreCurrent ==
    (pc \in {"embed", "finalize", "done"}
        \/ (pc = "loop" /\ current_iteration > 0))
    => persona_set.personas
          = NewPersonas(current_iteration, persona_data_list)

\* a step that records an attempt records the size of the set that holds
\* exactly the candidates of that iteration
RecordsCurrentCandidates ==
    Len(iteration_history') = Len(iteration_history) + 1
    => LET record == iteration_history'[Len(iteration_history')]
       IN /\ record.num_personas = persona_data_list'
          /\ persona_set'.personas
                = NewPersonas(record.iteration, persona_data_list')

\* C23: iterations are full retries: after the candidates of an iteration
\* are stored the persona set holds exactly the candidates of that
\* generation and none of an earlier one, and every recorded attempt was
\* scored on exactly that iteration's candidates.
ThmFullRetries == [](StoredAreCurrent) /\ [][RecordsCurrentCandidates]_vars

WitFullRetries ==
    /\ pc = "embed"
    /\ current_iteration = 2
    /\ iteration_history[1].num_personas = 2
    /\ Len(persona_set.personas) = 2
    /\ \A i \in DOMAIN persona_set.personas :
          persona_set.personas[i].iteration = 2

\* while generation N+1 is in progress: attempt N is recorded, and the hint
\* the generation received is the one computed from attempt N's metrics
HintFromPreviousAttempt ==
    pc \in {"llm", "embed"}
    => /\ Len(iteration_history) = current_iteration - 1
       /\ llm_calls = current_iteration
       /\ current_iteration = 1 => diversity_hints = None
       /\ current_iteration > 1
          => LET previous == iteration_history[current_iteration - 1]
             IN /\ rqe_metrics # None
                /\ rqe_metrics.rqe_score = previous.rqe_score
                /\ diversity_hints
                     = GenerateDiversityHints(previous.num_personas,
                                              rqe_metrics)

HintsUsedFromSecond ==
    \A i \in DOMAIN iteration_history :
        iteration_history[i].diversity_hints_used
            = (iteration_history[i].iteration > 1)

\* a generation starts only from the loop head, after the previous attempt
\* was recorded, and one at a time
GenerationStartsAfterRecord ==
    (pc' = "llm" /\ pc # "llm")
    => /\ pc = "loop"
       /\ Len(iteration_history) = current_iteration
       /\ current_iteration' = current_iteration + 1
       /\ llm_calls' = llm_calls + 1
       /\ UNCHANGED <<diversity_hints, rqe_metrics, iteration_history>>

\* C24: iterations are sequential: generation N+1 starts only after
\* attempt N was scored and recorded, and receives the hint computed from
\* attempt N's metrics; generation 1 receives no hint, and a record's
\* diversity_hints_used is true exactly when its iteration is above 1.
ThmSequentialHints ==
    /\ [](HintFromPreviousAttempt /\ HintsUsedFromSecond)
    /\ [][GenerationStartsAfterRecord]_vars

WitSequentialHints ==
    /\ pc = "llm"
    /\ current_iteration = 3
    /\ diversity_hints # None
    /\ diversity_hints.kind = "pairs"
    /\ Len(diversity_hints.pairs) = 1
    /\ iteration_history[2].diversity_hints_used
    /\ ~iteration_history[1].diversity_hints_used

\* ------------------------------------------ hint generator on its inputs
\* variant: without a matrix the hint is the empty string
NO_MATRIX_HINT_EMPTY == ""

\* the sentence returned when the metrics hold no matrix (line 434)
NO_MATRIX_HINT ==
    "Ensure each persona has unique demographics, distinct goals, and different behavioral patterns."

\* the lines of the returned text: one generic sentence (430, 434), or the
\* header, one line per named pair (by its format) and the checklist;
\* "\n".join(hints) (line 467) puts one newline between two lines
HintText(h) ==
    IF h.kind = "generic_no_numpy"
    THEN <<"Please ensure personas are distinctly different from each other in demographics, goals, and behaviors.">>
    ELSE IF h.kind = "generic_no_matrix" THEN <<NO_MATRIX_HINT>>
    ELSE <<"IMPORTANT: The following personas are too similar and need more differentiation:">>
            \o [i \in DOMAIN h.pairs |->
                  "- {persona1} and {persona2} are {similarity:.0%} similar"]
            \o <<"\nTo increase diversity, please:",
                 "1. Vary demographics more (age ranges, locations, occupations)",
                 "2. Create contrasting goals and motivations",
                 "3. Differentiate technology comfort levels and behaviors",
                 "4. Include personas with opposing frustrations or pain points",
                 "5. Vary educational backgrounds and experience levels">>

\* what _calculate_rqe returns for a set of n personas; a cosine
\* similarity is on the cutoff or one of two values above it
HintMetrics(n) ==
    IF CalculateRqeEarly(n) # None THEN {CalculateRqeEarly(n)}
    ELSE {CalculateRqeFromMatrix(n, SimilarityMatrix(n, up)) :
            up \in [PairSet(n) -> {SIMILAR_CUTOFF, 80, 90}]}

\* the run after its first attempt was recorded below the threshold, with
\* another iteration to come (lines 186-198)
InitHints ==
    /\ has_numpy \in BOOLEAN
    /\ has_scikit \in BOOLEAN
    /\ has_scikit => has_numpy
    /\ documents = [interviews |-> 1, contexts |-> 1]
    /\ generation_config = [rqe_threshold |-> DEFAULT_RQE_THRESHOLD,
                            max_iterations |-> DEFAULT_MAX_ITERATIONS,
                            auto_iterate |-> TRUE]
    /\ pc = "hints"
    /\ interview_texts = 1
    /\ context_texts = 1
    /\ current_iteration = 1
    /\ \E n \in 0..MaxHintPersonas :
        /\ rqe_metrics \in HintMetrics(n)
        /\ ~ThresholdReached(rqe_metrics.rqe_score,
                             generation_config.rqe_threshold)
        /\ persona_data_list = n
        /\ persona_set = [status |-> "generating",
                          generation_cycle |-> 1,
                          rqe_threshold |-> generation_config.rqe_threshold,
                          max_iterations |-> generation_config.max_iterations,
                          rqe_scores |-> <<>>,
                          diversity_score |-> None,
                          personas |-> NewPersonas(1, n)]
        /\ current_rqe = rqe_metrics.rqe_score
        /\ iteration_history =
             <<[iteration |-> 1,
                rqe_score |-> rqe_metrics.rqe_score,
                threshold |-> generation_config.rqe_threshold,
                threshold_met |-> RecordThresholdMet(rqe_metrics.rqe_score,
                                     generation_config.rqe_threshold),
                num_personas |-> n,
                diversity_hints_used |-> FALSE]>>
        /\ embed_calls = IF CalculateRqeEarly(n) = None THEN 1 ELSE 0
    /\ threshold_met = FALSE
    /\ diversity_hints = None
    /\ llm_calls = 1
    /\ result = None
    /\ cancelled_in = 0
    /\ diversity_result = None
    /\ analytics_calls = 0
    /\ ValIdle
    /\ NormIdle
    /\ ExpIdle

\* lines 198-201: the hint for the next iteration is computed
GenerateHints ==
    /\ pc = "hints"
    /\ HintsWanted(current_iteration, generation_config.max_iterations)
    /\ diversity_hints' = GenerateDiversityHints(Len(persona_set.personas),
                                                 rqe_metrics)
    /\ pc' = "hinted"
    /\ UNCHANGED extVars
    /\ UNCHANGED <<persona_data_list, rqe_metrics>>
    /\ UNCHANGED <<has_numpy, has_scikit, documents, generation_config,
                   interview_texts, context_texts, persona_set,
                   iteration_history, current_iteration, current_rqe,
                   threshold_met, llm_calls, embed_calls, result,
                   cancelled_in, diversity_result, analytics_calls>>

NextHints == GenerateHints

SpecHints == InitHints /\ [][NextHints]_vars

\* the pairs the hint names
NamedPairs == {<<diversity_hints.pairs[k].persona1,
                 diversity_hints.pairs[k].persona2>> :
                    k \in DOMAIN diversity_hints.pairs}

\* C25: the hint names at most 3 pairs; each named pair is a pair i < j of
\* the set, named once, with a similarity strictly above 0.7; the pairs are
\* named in non-increasing order of similarity, and no pair that is not
\* named has a strictly higher similarity than a named one.
ThmTopSimilarPairs ==
    pc = "hinted"
    => LET named == diversity_hints.pairs
           n == Len(persona_set.personas)
       IN /\ Len(named) <= 3
          /\ \A k \in DOMAIN named :
                /\ <<named[k].persona1, named[k].persona2>> \in PairSet(n)
                /\ named[k].similarity
                     = rqe_metrics.similarity_matrix[named[k].persona1,
                                                     named[k].persona2]
                /\ named[k].similarity > 70
          /\ Cardinality(NamedPairs) = Len(named)
          /\ \A k \in 1..(Len(named) - 1) :
                named[k].similarity >= named[k + 1].similarity
          /\ \A k \in DOMAIN named :
                \A q \in PairSet(n) \ NamedPairs :
                    ~(rqe_metrics.similarity_matrix[q] > named[k].similarity)

WitTopSimilarPairs ==
    /\ pc = "hinted"
    /\ Len(persona_set.personas) = 4
    /\ Len(diversity_hints.pairs) = 3
    /\ diversity_hints.pairs[1].similarity > diversity_hints.pairs[3].similarity
    /\ \E q \in PairSet(4) \ NamedPairs :
          rqe_metrics.similarity_matrix[q] = diversity_hints.pairs[3].similarity
    /\ \E q \in PairSet(4) : rqe_metrics.similarity_matrix[q] = 70

\* no pair of the set is above the cutoff, or there is no matrix
NothingToName ==
    \/ "similarity_matrix" \notin DOMAIN rqe_metrics
    \/ \A q \in PairSet(Len(persona_set.personas)) :
          ~(rqe_metrics.similarity_matrix[q] > 70)

\* C26: when no pair is above the cutoff, or there is no similarity matrix,
\* the hint is still a non-empty text of generic advice that names no
\* pair; the hint handed to the next generation is never empty.
ThmHintNeverEmpty ==
    pc = "hinted"
    => /\ diversity_hints # None
       /\ HintText(diversity_hints) # <<>>
       /\ \A k \in DOMAIN HintText(diversity_hints) :
             HintText(diversity_hints)[k] # ""
       /\ NothingToName
          => /\ diversity_hints.pairs = <<>>
             /\ \/ Len(HintText(diversity_hints)) = 1
                \/ /\ Len(HintText(diversity_hints)) = 7
                   /\ diversity_hints.checklist

WitHintNeverEmpty ==
    /\ pc = "hinted"
    /\ "similarity_matrix" \in DOMAIN rqe_metrics
    /\ Len(persona_set.personas) = 3
    /\ NothingToName
    /\ Len(HintText(diversity_hints)) = 7

\* the parts of the summary that do not depend on the threshold test
SummaryMatchesHistory ==
    /\ result.iterations_used = Len(result.iteration_history)
    /\ result.iteration_history = iteration_history
    /\ result.iterations_used = persona_set.generation_cycle
    /\ persona_set.status = "generated"
    /\ iteration_history # <<>>
        => LET last == iteration_history[Len(iteration_history)]
           IN /\ result.rqe_score = last.rqe_score
              /\ result.threshold_met = last.threshold_met

StatusGeneratingBefore ==
    pc \in {"loop", "llm", "embed", "finalize"}
        => persona_set.status = "generating"

\* C30: when the run returns normally, for every configuration (also
\* max_iterations <= 0): iterations_used is the number of history records
\* and the persisted generation_cycle; the summary threshold_met equals
\* (summary rqe_score >= rqe_threshold); with a non-empty history the
\* summary rqe_score and threshold_met are those of the last record; the
\* set status is 'generated', and 'generating' at every earlier point.
CexSummaryConsistent ==
    /\ StatusGeneratingBefore
    /\ pc = "done"
        => /\ SummaryMatchesHistory
           /\ result.threshold_met
                = FracGE(result.rqe_score, result.rqe_threshold)

\* C30, amended: as above, except that the summary threshold_met equals
\* (summary rqe_score >= rqe_threshold) only when at least one pass ran or
\* rqe_threshold is above 0; when no pass ran the summary has rqe_score 0.0
\* and threshold_met False whatever the threshold.
ThmSummaryConsistent ==
    /\ StatusGeneratingBefore
    /\ pc = "done"
        => /\ SummaryMatchesHistory
           /\ (iteration_history # <<>>
                    \/ ~FracGE(Zero, result.rqe_threshold))
                => result.threshold_met
                     = FracGE(result.rqe_score, result.rqe_threshold)
           /\ iteration_history = <<>>
                => /\ FracEQ(result.rqe_score, Zero)
                   /\ ~result.threshold_met

WitSummaryConsistent ==
    /\ pc = "done"
    /\ iteration_history = <<>>
    /\ generation_config.max_iterations = 0
    /\ FracEQ(result.rqe_threshold, Zero)
    /\ ~result.threshold_met
    /\ persona_set.generation_cycle = 0

====
